---- MODULE Spec2Model ----
(***************************************************************************)
(* A model of src/app.py: the SteamCMD download monitor (start_download),  *)
(* its helpers (extract_game_id, validate_login, parse_progress), the      *)
(* child process it spawns and the log file they communicate through.      *)
(*                                                                         *)
(* Text is a sequence of symbols.  A symbol is either one character (a     *)
(* digit, ".", "%", ":", " ", "/", ")", a newline "\n", an arbitrary other *)
(* character "x") or a literal the source searches for as a whole          *)
(* ("Login Failure", "ERROR", "Progress: ", "http", ...).  Substring and   *)
(* regular-expression searches are computed over these sequences.          *)
(***************************************************************************)
EXTENDS Integers, Sequences, FiniteSets, TLC

VARIABLES
    reqs,       \* the requests (generator instances) of this run
    req,        \* req[r]: the arguments of start_download
    pc,         \* pc[r]: where the generator of request r stands
    game_id,    \* game_id[r]: the local rebound at line 135
    cmd,        \* cmd[r]: the command line built at lines 142-143
    proc,       \* proc[r]: the child process of request r
    off,        \* off[r]: file offset of the child's stdout/stderr descriptor
    log,        \* content of LOG_FILE (shared by all requests)
    output,     \* output[r]: the text read at line 153
    snapshots,  \* snapshots[r]: the tuples yielded so far
    slept,      \* slept[r]: completed time.sleep(1) calls (whole seconds)
    hist,       \* hist[r]: history of request r (spawns, log opens, ...)
    chunks,     \* the texts the tool may print in this run
    arg,        \* argument of the pure function under check
    ret,        \* its result
    phase       \* "call" before, "extract" / "parse" after the call

vars == <<reqs, req, pc, game_id, cmd, proc, off, log, output, snapshots,
          slept, hist, chunks, arg, ret, phase>>

monitorVars == <<reqs, req, pc, game_id, cmd, proc, off, log, output,
                 snapshots, slept, hist, chunks>>

pureVars == <<arg, ret, phase>>

-----------------------------------------------------------------------------
(* Bounds of the model *)

MaxIdLen == 5      \* symbols in a game identifier input (extract_game_id check)
MaxFrags == 3      \* fragments in a log text (parse_progress check)
MaxWrites == 2     \* writes of the child processes to the log in a run
MaxPolls == 3      \* iterations of the poll loops in a run

-----------------------------------------------------------------------------
(* Python values *)

None == [t |-> "None"]
Str(s) == [t |-> "str", s |-> s]
Float(ip, fr) == [t |-> "float", ip |-> ip, fr |-> fr]

\* Python truthiness of None / str, as used by "not x"
Not(v) == v.t = "None" \/ (v.t = "str" /\ v.s = <<>>)

Digits == {"0", "1", "5", "7"}
IsDigit(c) == c \in Digits
DigitVal(c) == CASE c = "0" -> 0 [] c = "1" -> 1 [] c = "5" -> 5 [] c = "7" -> 7

\* int() of a digit string
IntOf(ds) ==
    LET value[n \in 0..Len(ds)] ==
            IF n = 0 THEN 0 ELSE 10 * value[n - 1] + DigitVal(ds[n])
    IN value[Len(ds)]

\* a fraction without its trailing zeros
StripZeros(ds) ==
    LET n == CHOOSE k \in 0..Len(ds) :
                 /\ \A j \in (k + 1)..Len(ds) : ds[j] = "0"
                 /\ (k = 0 \/ ds[k] # "0")
    IN SubSeq(ds, 1, n)

\* float("12.50") = 12.5: integer part by value, fraction without trailing zeros
float(ip, fr) == Float(IntOf(ip), StripZeros(fr))

\* end (exclusive) of the maximal run of digits from i
DigitRunEnd(s, i) ==
    CHOOSE e \in i..(Len(s) + 1) :
        /\ \A k \in i..(e - 1) : IsDigit(s[k])
        /\ (e = Len(s) + 1 \/ ~IsDigit(s[e]))

-----------------------------------------------------------------------------
(* extract_game_id, lines 78-86 *)

HTTP == "http"
STORE == "store.steampowered.com/app/"

\* re.search(r'store\.steampowered\.com/app/(\d+)', s): leftmost match, greedy group
StoreMatchAt(s, i) == i + 1 <= Len(s) /\ s[i] = STORE /\ IsDigit(s[i + 1])

StoreSearch(s) ==
    IF \E i \in 1..Len(s) : StoreMatchAt(s, i)
    THEN LET i == CHOOSE k \in 1..Len(s) :
                      StoreMatchAt(s, k) /\ \A j \in 1..(k - 1) : ~StoreMatchAt(s, j)
         IN Str(SubSeq(s, i + 1, DigitRunEnd(s, i + 1) - 1))
    ELSE None

startswith(s, p) == Len(s) >= 1 /\ s[1] = p

isdigit(s) == Len(s) >= 1 /\ \A i \in 1..Len(s) : IsDigit(s[i])

\* mutant: the URL branch is not guarded by startswith("http")
extract_game_id_anywhere(input_str) ==
    IF Not(input_str) THEN None
    ELSE IF StoreSearch(input_str.s) # None THEN StoreSearch(input_str.s)
    ELSE IF isdigit(input_str.s) THEN input_str ELSE None

extract_game_id(input_str) ==
    IF Not(input_str) THEN None
    ELSE IF startswith(input_str.s, HTTP) THEN StoreSearch(input_str.s)
    ELSE IF isdigit(input_str.s) THEN input_str ELSE None

-----------------------------------------------------------------------------
(* validate_login, lines 89-98 *)

MsgInvalidGame == <<"Invalid Game ID or URL">>
MsgAnonymous == <<"Proceeding with anonymous login">>
MsgNeedCreds == <<"Username and password required for non-anonymous login">>
MsgCreds == <<"Credentials provided">>

\* mutant: the credentials are not checked
validate_login_nocreds(username, password, anonymous, gid) ==
    IF Not(gid) THEN <<FALSE, MsgInvalidGame>>
    ELSE IF anonymous THEN <<TRUE, MsgAnonymous>>
    ELSE <<TRUE, MsgCreds>>

validate_login(username, password, anonymous, gid) ==
    IF Not(gid) THEN <<FALSE, MsgInvalidGame>>
    ELSE IF anonymous THEN <<TRUE, MsgAnonymous>>
    ELSE IF Not(username) \/ Not(password) THEN <<FALSE, MsgNeedCreds>>
    ELSE <<TRUE, MsgCreds>>

-----------------------------------------------------------------------------
(* parse_progress, lines 101-131 *)

AUTH1 == "Login Failure"
AUTH2 == "Invalid Password"
APPID == "Invalid App ID"
NOSPACE == "No space left on device"
ERR == "ERROR"
PROGRESS == "Progress: "
COMPLETE == "complete"

MsgAuth == <<"Authentication failed: Invalid username or password">>
MsgAppId == <<"Invalid game ID">>
MsgDisk == <<"Error: ", "Insufficient disk space">>
MsgError == <<"Download error occurred">>
MsgErrorPrefix == <<"Error: ">>

\* "sym in output"
In(sym, s) == \E i \in 1..Len(s) : s[i] = sym

At(s, i, sym) == i <= Len(s) /\ s[i] = sym

Leftmost(S) == CHOOSE k \in S : \A j \in S : k <= j

IsSpace(c) == c \in {" ", "\n"}

\* end (exclusive) of the maximal run of whitespace from i
SpaceRunEnd(s, i) ==
    CHOOSE e \in i..(Len(s) + 1) :
        /\ \A k \in i..(e - 1) : IsSpace(s[k])
        /\ (e = Len(s) + 1 \/ ~IsSpace(s[e]))

\* end (exclusive) of the line i is in
LineEnd(s, i) ==
    CHOOSE e \in i..(Len(s) + 1) :
        /\ \A k \in i..(e - 1) : s[k] # "\n"
        /\ (e = Len(s) + 1 \/ s[e] = "\n")

\* re.search(r'ERROR\s*:\s*(.+)$', output, re.MULTILINE), line 111.
\* ErrGroupStarts: where the group can start for a match beginning at i; the
\* greedy \s* after the colon gives up symbols until (.+) finds one to take.
ErrGroupStarts(s, i) ==
    IF ~At(s, i, ERR) THEN {}
    ELSE LET c == SpaceRunEnd(s, i + 1)
         IN IF ~At(s, c, ":") THEN {}
            ELSE {k \in (c + 1)..SpaceRunEnd(s, c + 1) : k <= Len(s) /\ s[k] # "\n"}

ErrorSearch(s) ==
    LET M == {i \in 1..Len(s) : ErrGroupStarts(s, i) # {}}
    IN IF M = {} THEN None
       ELSE LET G == ErrGroupStarts(s, Leftmost(M))
                k == CHOOSE g \in G : \A h \in G : h <= g
            IN Str(SubSeq(s, k, LineEnd(s, k) - 1))

AllDigits(s, i, j) == \A k \in i..j : IsDigit(s[k])

\* (\d+\.\d+) matched at i: the positions <<d, e>> of its "." and of its end
\* (exclusive); both \d+ are greedy
NumberEnds(s, i) ==
    {m \in ((i + 1)..Len(s)) \X ((i + 3)..(Len(s) + 1)) :
        /\ s[m[1]] = "."
        /\ m[1] + 1 < m[2]
        /\ AllDigits(s, i, m[1] - 1)
        /\ AllDigits(s, m[1] + 1, m[2] - 1)
        /\ (m[2] = Len(s) + 1 \/ ~IsDigit(s[m[2]]))}

\* whether (\d+\.\d+) matches at i, where the match ends, float() of its text
Number(s, i) ==
    IF NumberEnds(s, i) = {} THEN [ok |-> FALSE]
    ELSE CHOOSE n \in {[ok |-> TRUE, end |-> m[2],
                        val |-> float(SubSeq(s, i, m[1] - 1), SubSeq(s, m[1] + 1, m[2] - 1))] :
                          m \in NumberEnds(s, i)} : TRUE

\* r'Progress: (\d+\.\d+)%'
Pattern1At(s, i) ==
    /\ At(s, i, PROGRESS)
    /\ \E n \in {Number(s, i + 1)} : n.ok /\ At(s, n.end, "%")

\* r'(\d+\.\d+)% complete'
Pattern2At(s, i) ==
    /\ IsDigit(s[i])
    /\ \E n \in {Number(s, i)} :
          n.ok /\ At(s, n.end, "%") /\ At(s, n.end + 1, " ") /\ At(s, n.end + 2, COMPLETE)

\* r'(\d+)% \(\d+/\d+\)' matched at i: the positions of "%", "/" and ")"
Pattern3Ends(s, i) ==
    {m \in ((i + 1)..Len(s)) \X ((i + 5)..Len(s)) \X ((i + 7)..Len(s)) :
        /\ s[m[1]] = "%" /\ At(s, m[1] + 1, " ") /\ At(s, m[1] + 2, "(")
        /\ s[m[2]] = "/" /\ s[m[3]] = ")"
        /\ m[1] + 3 < m[2] /\ m[2] + 1 < m[3]
        /\ AllDigits(s, i, m[1] - 1)
        /\ AllDigits(s, m[1] + 3, m[2] - 1)
        /\ AllDigits(s, m[2] + 1, m[3] - 1)}

Pattern3At(s, i) == IsDigit(s[i]) /\ Pattern3Ends(s, i) # {}

Matches1(s) == {i \in 1..Len(s) : Pattern1At(s, i)}
Matches2(s) == {i \in 1..Len(s) : Pattern2At(s, i)}
Matches3(s) == {i \in 1..Len(s) : Pattern3At(s, i)}

\* mutant: the most recent 'Progress: X%' line instead of the first
Pattern1SearchLast(s) ==
    IF Matches1(s) = {} THEN None
    ELSE CHOOSE v \in {Number(s, i + 1).val :
                          i \in {k \in Matches1(s) : \A j \in Matches1(s) : j <= k}} : TRUE

\* re.search(pattern, output) and float(match.group(1)), lines 124-127
Pattern1Search(s) ==
    IF Matches1(s) = {} THEN None
    ELSE CHOOSE v \in {Number(s, i + 1).val : i \in {Leftmost(Matches1(s))}} : TRUE

Pattern2Search(s) ==
    IF Matches2(s) = {} THEN None
    ELSE CHOOSE v \in {Number(s, i).val : i \in {Leftmost(Matches2(s))}} : TRUE

Pattern3Search(s) ==
    IF Matches3(s) = {} THEN None
    ELSE CHOOSE v \in {float(SubSeq(s, i, DigitRunEnd(s, i) - 1), <<>>) :
                          i \in {Leftmost(Matches3(s))}} : TRUE

\* the for loop over patterns, lines 117-131
SearchPatterns(s) ==
    IF Matches1(s) # {} THEN Pattern1Search(s)
    ELSE IF Matches2(s) # {} THEN Pattern2Search(s)
    ELSE Pattern3Search(s)

ErrorBranch(s) ==
    IF ErrorSearch(s) # None THEN Str(MsgErrorPrefix \o ErrorSearch(s).s)
    ELSE Str(MsgError)

\* mutant: the generic ERROR test comes before the specific phrases
parse_progress_generic_first(s) ==
    IF In(ERR, s) THEN ErrorBranch(s)
    ELSE IF In(AUTH1, s) \/ In(AUTH2, s) THEN Str(MsgAuth)
    ELSE IF In(APPID, s) THEN Str(MsgAppId)
    ELSE IF In(NOSPACE, s) THEN Str(MsgDisk)
    ELSE SearchPatterns(s)

parse_progress(s) ==
    IF In(AUTH1, s) \/ In(AUTH2, s) THEN Str(MsgAuth)
    ELSE IF In(APPID, s) THEN Str(MsgAppId)
    ELSE IF In(NOSPACE, s) THEN Str(MsgDisk)
    ELSE IF In(ERR, s) THEN ErrorBranch(s)
    ELSE SearchPatterns(s)

-----------------------------------------------------------------------------
(* start_download, lines 133-179: a generator.  It runs only while its       *)
(* consumer asks for the next tuple and is suspended at each yield; the      *)
(* child process runs on its own.                                            *)

LinkCap == 20

Zero == Float(0, <<>>)
Hundred == Float(100, <<>>)

\* the tuples yielded at lines 138, 156, 162 and 179
MessageSnapshot(message) ==
    [percent |-> Zero, elapsed |-> Str(<<>>), remaining |-> Str(<<>>),
     size |-> Str(<<>>), status |-> message, links |-> Str(<<>>)]

ProgressSnapshot(progress, seconds) ==
    [percent |-> progress, elapsed |-> seconds, remaining |-> Str(<<"Calculating...">>),
     size |-> Str(<<"N/A">>), status |-> <<"Downloading...">>, links |-> Str(<<>>)]

\* links[:20] joined, and the marker when there are more; lines 168-179
Links(n) ==
    IF n = 0 THEN [lines |-> 1, nofiles |-> TRUE, more |-> FALSE]
    ELSE [lines |-> IF n > LinkCap THEN LinkCap ELSE n, nofiles |-> FALSE,
          more |-> n > LinkCap]

CompletedSnapshot(seconds, n) ==
    [percent |-> Hundred, elapsed |-> seconds, remaining |-> Str(<<"0 s">>),
     size |-> Str(<<"N/A">>), status |-> <<"Download completed">>, links |-> Links(n)]

\* lines 142-143
Command(r) ==
    [login |-> IF req[r].anonymous THEN <<"anonymous">>
               ELSE <<req[r].username.s, req[r].password.s>>,
     app_update |-> game_id'[r].s]

Holes(n) == [i \in 1..n |-> "\\0"]

\* a write of chunk c at offset o of a file with content f
WriteAt(f, o, c) ==
    IF o >= Len(f) THEN f \o Holes(o - Len(f)) \o c
    ELSE SubSeq(f, 1, o) \o c \o SubSeq(f, o + Len(c) + 1, Len(f))

\* mutant: the log is opened for appending
OpenAppend(f) == f

\* open(LOG_FILE, "w"), line 146
OpenTruncate(f) == <<>>

\* lines 135-149, up to the first yield or the first test of the loop
Start(r) ==
    /\ pc[r] = "start"
    /\ game_id' = [game_id EXCEPT ![r] = extract_game_id(req[r].game_id)]
    /\ LET v == validate_login(req[r].username, req[r].password,
                               req[r].anonymous, game_id'[r])
       IN \/ /\ ~v[1]
             /\ snapshots' = [snapshots EXCEPT ![r] = Append(@, MessageSnapshot(v[2]))]
             /\ pc' = [pc EXCEPT ![r] = "yield_invalid"]
             /\ UNCHANGED <<cmd, log, proc, off, hist>>
          \/ /\ v[1]
             /\ cmd' = [cmd EXCEPT ![r] = Command(r)]
             /\ log' = OpenTruncate(log)
             /\ proc' = [proc EXCEPT ![r] = "running"]
             /\ off' = [off EXCEPT ![r] = 0]
             /\ hist' = [hist EXCEPT ![r].spawns = @ + 1, ![r].opens = @ + 1]
             /\ pc' = [pc EXCEPT ![r] = "loop"]
             /\ UNCHANGED snapshots
    /\ UNCHANGED <<chunks, reqs, req, output, slept, pureVars>>

\* the consumer asks again after the tuple of line 138: return, line 139
ResumeInvalid(r) ==
    /\ pc[r] = "yield_invalid"
    /\ pc' = [pc EXCEPT ![r] = "done"]
    /\ UNCHANGED <<chunks, reqs, req, game_id, cmd, proc, off, log, output, snapshots,
                   slept, hist, pureVars>>

\* the sum of a counter over the requests
RECURSIVE SumOver(_, _)
SumOver(f, S) ==
    IF S = {} THEN 0
    ELSE LET q == CHOOSE x \in S : TRUE IN f[q] + SumOver(f, S \ {q})

Total(f) == SumOver(f, DOMAIN f)

\* what os.walk(DOWNLOAD_DIR) may find, line 169: the number of regular files
FileCounts == {0, LinkCap + 1}

\* line 150, and lines 165-179 when the child is no longer running
Poll(r) ==
    /\ pc[r] = "loop"
    /\ \/ /\ proc[r] = "running"
          /\ Total(slept) < MaxPolls
          /\ pc' = [pc EXCEPT ![r] = "sleep"]
          /\ UNCHANGED snapshots
       \/ /\ proc[r] # "running"
          /\ \E n \in FileCounts :
                snapshots' = [snapshots EXCEPT ![r] =
                                 Append(@, CompletedSnapshot(slept[r], n))]
          /\ pc' = [pc EXCEPT ![r] = "yield_completed"]
    /\ UNCHANGED <<chunks, reqs, req, game_id, cmd, proc, off, log, output, slept,
                   hist, pureVars>>

\* mutant: a poll without signal yields a tuple repeating the last percent
SleepReadReport(r) ==
    /\ pc[r] = "sleep"
    /\ slept' = [slept EXCEPT ![r] = @ + 1]
    /\ output' = [output EXCEPT ![r] = log]
    /\ \E progress \in {parse_progress(log)} :
       LET last == IF snapshots[r] = <<>> THEN Zero ELSE snapshots[r][Len(snapshots[r])].percent
       IN \/ /\ progress.t = "str"
             /\ snapshots' = [snapshots EXCEPT ![r] = Append(@, MessageSnapshot(progress.s))]
             /\ pc' = [pc EXCEPT ![r] = "yield_error"]
             /\ UNCHANGED hist
          \/ /\ progress.t = "float"
             /\ snapshots' = [snapshots EXCEPT ![r] =
                                 Append(@, ProgressSnapshot(progress, slept[r] + 1))]
             /\ pc' = [pc EXCEPT ![r] = "yield_progress"]
             /\ hist' = [hist EXCEPT ![r].from1 =
                            IF Matches1(log) # {} THEN @ \cup {Len(snapshots[r]) + 1} ELSE @]
          \/ /\ progress = None
             /\ snapshots' = [snapshots EXCEPT ![r] =
                                 Append(@, [ProgressSnapshot(last, slept[r] + 1)
                                               EXCEPT !.status = <<"Running">>])]
             /\ pc' = [pc EXCEPT ![r] = "yield_progress"]
             /\ UNCHANGED hist
    /\ UNCHANGED <<chunks, reqs, req, game_id, cmd, proc, off, log, pureVars>>

\* lines 151-162: one sleep, one read of the whole log, its classification:
\* a str is an error (lines 155-158), a float a progress value (lines
\* 159-162), None nothing to report
SleepRead(r) ==
    /\ pc[r] = "sleep"
    /\ slept' = [slept EXCEPT ![r] = @ + 1]
    /\ output' = [output EXCEPT ![r] = log]
    /\ \E progress \in {parse_progress(log)} :
          \/ /\ progress.t = "str"
             /\ snapshots' = [snapshots EXCEPT ![r] = Append(@, MessageSnapshot(progress.s))]
             /\ pc' = [pc EXCEPT ![r] = "yield_error"]
             /\ UNCHANGED hist
          \/ /\ progress.t = "float"
             /\ snapshots' = [snapshots EXCEPT ![r] =
                                 Append(@, ProgressSnapshot(progress, slept[r] + 1))]
             /\ pc' = [pc EXCEPT ![r] = "yield_progress"]
             /\ hist' = [hist EXCEPT ![r].from1 =
                            IF Matches1(log) # {} THEN @ \cup {Len(snapshots[r]) + 1} ELSE @]
          \/ /\ progress = None
             /\ pc' = [pc EXCEPT ![r] = "loop"]
             /\ UNCHANGED <<snapshots, hist>>
    /\ UNCHANGED <<chunks, reqs, req, game_id, cmd, proc, off, log, pureVars>>

\* the consumer asks again after the tuple of line 162: back to line 150
ResumeProgress(r) ==
    /\ pc[r] = "yield_progress"
    /\ pc' = [pc EXCEPT ![r] = "loop"]
    /\ UNCHANGED <<chunks, reqs, req, game_id, cmd, proc, off, log, output, snapshots,
                   slept, hist, pureVars>>

\* process.terminate(), line 157
terminate(p) == IF p = "running" THEN "terminated" ELSE p

\* mutant: the return of line 158 is missing
ResumeErrorNoReturn(r) ==
    /\ pc[r] = "yield_error"
    /\ proc' = [proc EXCEPT ![r] = terminate(@)]
    /\ pc' = [pc EXCEPT ![r] = "loop"]
    /\ UNCHANGED <<chunks, reqs, req, game_id, cmd, off, log, output, snapshots,
                   slept, hist, pureVars>>

\* the consumer asks again after the tuple of line 156: lines 157-158
ResumeError(r) ==
    /\ pc[r] = "yield_error"
    /\ proc' = [proc EXCEPT ![r] = terminate(@)]
    /\ pc' = [pc EXCEPT ![r] = "done"]
    /\ UNCHANGED <<chunks, reqs, req, game_id, cmd, off, log, output, snapshots,
                   slept, hist, pureVars>>

\* the consumer asks again after the tuple of line 179: the generator ends
ResumeCompleted(r) ==
    /\ pc[r] = "yield_completed"
    /\ pc' = [pc EXCEPT ![r] = "done"]
    /\ UNCHANGED <<chunks, reqs, req, game_id, cmd, proc, off, log, output, snapshots,
                   slept, hist, pureVars>>

(* The child process: Popen(cmd, shell=True, stdout=log, stderr=log), line 147. *)
(* It writes chunks of text at the offset of its descriptor and exits when it   *)
(* pleases.                                                                     *)

ChildChunks ==
    { <<AUTH1>>, <<ERR, ":", " ", NOSPACE>>, <<"x">>,
      <<PROGRESS, "1", ".", "5", "%">>,
      <<PROGRESS, "1", "0", "1", ".", "0", "%">>,
      <<"7", ".", "5", "%", " ", COMPLETE>> }

ChunkHasError(c) == \E i \in 1..Len(c) : c[i] \in {AUTH1, AUTH2, APPID, NOSPACE, ERR}

LogHasError == \E i \in 1..Len(log) : log[i] \in {AUTH1, AUTH2, APPID, NOSPACE, ERR}

ChildWrite(r) ==
    /\ proc[r] = "running"
    /\ Total([q \in reqs |-> hist[q].writes]) < MaxWrites
    /\ \E c \in chunks :
          /\ log' = WriteAt(log, off[r], c)
          /\ off' = [off EXCEPT ![r] = @ + Len(c)]
          /\ hist' = [hist EXCEPT ![r].writes = @ + 1,
                                  ![r].wroteError = @ \/ ChunkHasError(c)]
    /\ UNCHANGED <<chunks, reqs, req, pc, game_id, cmd, proc, output, snapshots, slept,
                   pureVars>>

ChildExit(r) ==
    /\ proc[r] = "running"
    /\ proc' = [proc EXCEPT ![r] = "exited"]
    /\ hist' = [hist EXCEPT ![r].errorAtExit = LogHasError]
    /\ UNCHANGED <<chunks, reqs, req, pc, game_id, cmd, off, log, output, snapshots,
                   slept, pureVars>>

Monitor(r) ==
    \/ Start(r)
    \/ ResumeInvalid(r)
    \/ Poll(r)
    \/ SleepRead(r)
    \/ ResumeProgress(r)
    \/ ResumeError(r)
    \/ ResumeCompleted(r)

Texts == {Str(<<>>), Str(<<"u">>)}

GameInputs == {Str(<<>>), Str(<<HTTP, "s://", STORE, "5", "/">>), Str(<<STORE, "5">>)}

Requests == [game_id : GameInputs, username : Texts, password : Texts,
             anonymous : BOOLEAN]

NoHistory == [spawns |-> 0, opens |-> 0, writes |-> 0, wroteError |-> FALSE,
              errorAtExit |-> FALSE, from1 |-> {}]

InitRequests(R, Q, L, C) ==
    /\ reqs = R
    /\ req \in [R -> Q]
    /\ pc = [r \in R |-> "start"]
    /\ game_id = [r \in R |-> None]
    /\ cmd = [r \in R |-> None]
    /\ proc = [r \in R |-> "none"]
    /\ off = [r \in R |-> 0]
    /\ log \in L
    /\ output = [r \in R |-> <<>>]
    /\ snapshots = [r \in R |-> <<>>]
    /\ slept = [r \in R |-> 0]
    /\ hist = [r \in R |-> NoHistory]
    /\ chunks = C
    /\ arg = None /\ ret = None /\ phase = "idle"

\* what an earlier run may have left in LOG_FILE
OldLogs == {<<>>, <<"x">>}

Init == InitRequests({1}, Requests, OldLogs, ChildChunks)

Next ==
    \/ \E r \in reqs : Start(r)
    \/ \E r \in reqs : ResumeInvalid(r)
    \/ \E r \in reqs : Poll(r)
    \/ \E r \in reqs : SleepRead(r)
    \/ \E r \in reqs : ResumeProgress(r)
    \/ \E r \in reqs : ResumeError(r)
    \/ \E r \in reqs : ResumeCompleted(r)
    \/ \E r \in reqs : ChildWrite(r)
    \/ \E r \in reqs : ChildExit(r)

Spec == Init /\ [][Next]_vars

\* the consumer keeps asking and the sleep ends: the generator always gets on
SpecFair == Spec /\ \A r \in {1} : WF_vars(Monitor(r))

\* two requests at once: the first an anonymous one for a storefront URL, the
\* second one of the same or one without identifier
Requests2 == [game_id : {Str(<<>>), Str(<<HTTP, "s://", STORE, "5", "/">>)},
              username : {Str(<<>>)}, password : {Str(<<>>)}, anonymous : {TRUE}]

ChildChunks2 == {<<AUTH1>>, <<PROGRESS, "1", ".", "5", "%">>}

InitTwo ==
    /\ InitRequests({1, 2}, Requests2, {<<>>}, ChildChunks2)
    /\ req[1].game_id # Str(<<>>)

SpecTwo == InitTwo /\ [][Next]_vars

-----------------------------------------------------------------------------
(* The pure functions under check: the argument is drawn from a bounded set *)
(* of texts and the function is applied to it.                              *)

RECURSIVE SeqsUpTo(_, _)
SeqsUpTo(S, n) ==
    IF n = 0 THEN {<<>>}
    ELSE LET shorter == SeqsUpTo(S, n - 1)
         IN shorter \cup {Append(q, x) : q \in shorter, x \in S}

RECURSIVE Concats(_, _)
Concats(F, n) ==
    IF n = 0 THEN {<<>>}
    ELSE LET shorter == Concats(F, n - 1)
         IN shorter \cup {q \o f : q \in shorter, f \in F}

GidSymbols == {HTTP, "s://", STORE, "5", "7", "/", "x"}

GidInputs == {None} \cup {Str(s) : s \in SeqsUpTo(GidSymbols, MaxIdLen)}

Fragments ==
    { <<AUTH1>>, <<AUTH2>>, <<APPID>>, <<NOSPACE>>, <<ERR>>, <<ERR, ":", " ">>,
      <<"x">>, <<"\n">>, <<"%">>,
      <<PROGRESS, "1", ".", "5">>,
      <<PROGRESS, "1", "0", "1", ".", "0", "%">>,
      <<"7", ".", "5", "%", " ", COMPLETE>>,
      <<"5", "%", " ", "(", "1", "/", "1", ")">> }

LogTexts == {Str(s) : s \in Concats(Fragments, MaxFrags)}

NoRequests ==
    /\ reqs = {}
    /\ req = <<>> /\ pc = <<>> /\ game_id = <<>> /\ cmd = <<>> /\ proc = <<>>
    /\ off = <<>> /\ log = <<>> /\ output = <<>> /\ snapshots = <<>>
    /\ slept = <<>> /\ hist = <<>> /\ chunks = {}

InitExtract == NoRequests /\ arg \in GidInputs /\ ret = None /\ phase = "call"

CallExtract ==
    /\ phase = "call"
    /\ ret' = extract_game_id(arg)
    /\ phase' = "extract"
    /\ UNCHANGED <<arg, monitorVars>>

SpecExtract == InitExtract /\ [][CallExtract]_vars

InitParse == NoRequests /\ arg \in LogTexts /\ ret = None /\ phase = "call"

CallParse ==
    /\ phase = "call"
    /\ ret' = parse_progress(arg.s)
    /\ phase' = "parse"
    /\ UNCHANGED <<arg, monitorVars>>

SpecParse == InitParse /\ [][CallParse]_vars

-----------------------------------------------------------------------------
(* Claims about extract_game_id *)

MatchesStorePattern(s) ==
    \E i \in 1..Len(s) : s[i] = STORE /\ i < Len(s) /\ s[i + 1] \in Digits

\* g is the digit group captured by the first occurrence of the pattern in s
IsCapturedGroup(s, g) ==
    \E i \in 1..Len(s) :
        /\ s[i] = STORE
        /\ Len(g) >= 1
        /\ i + Len(g) <= Len(s)
        /\ g = SubSeq(s, i + 1, i + Len(g))
        /\ \A k \in 1..Len(g) : g[k] \in Digits
        /\ (i + Len(g) = Len(s) \/ s[i + Len(g) + 1] \notin Digits)
        /\ \A j \in 1..(i - 1) : ~(s[j] = STORE /\ s[j + 1] \in Digits)

PurelyDigits(s) == s # <<>> /\ \A i \in 1..Len(s) : s[i] \in Digits

\* C8 as stated: every input matching the storefront pattern yields the
\* captured group, every purely numeric input yields itself, every other
\* input (empty and missing input included) yields no identifier.
C8_AsStated ==
    phase = "extract" =>
        IF arg = None THEN ret = None
        ELSE IF MatchesStorePattern(arg.s)
             THEN ret.t = "str" /\ IsCapturedGroup(arg.s, ret.s)
        ELSE IF PurelyDigits(arg.s) THEN ret = arg
        ELSE ret = None

\* C8 (amended): the storefront pattern is searched only in inputs that begin
\* with "http"; such an input yields the captured group of the first match
\* and no identifier without a match.  An input that does not begin with
\* "http" yields itself if it is purely numeric and no identifier otherwise.
C8_Extract ==
    phase = "extract" =>
        IF arg = None THEN ret = None
        ELSE IF arg.s # <<>> /\ Head(arg.s) = HTTP
             THEN IF MatchesStorePattern(arg.s)
                  THEN ret.t = "str" /\ IsCapturedGroup(arg.s, ret.s)
                  ELSE ret = None
        ELSE IF PurelyDigits(arg.s) THEN ret = arg
        ELSE ret = None

\* an https storefront URL followed by a path has been reduced to its digits
C8_Witness ==
    /\ phase = "extract"
    /\ arg = Str(<<HTTP, "s://", STORE, "5", "/">>)
    /\ ret = Str(<<"5">>)

-----------------------------------------------------------------------------
(* Claims about parse_progress *)

\* the classification a value returned by parse_progress stands for
KindOf(v) ==
    IF v.t = "float" THEN "Progress"
    ELSE IF v.t = "None" THEN "NoSignal"
    ELSE IF v.s = MsgAuth THEN "AuthError"
    ELSE IF v.s = MsgAppId THEN "InvalidId"
    ELSE IF v.s = MsgDisk THEN "DiskError"
    ELSE "GenericError"

HasAuthPhrase(s) == \E i \in DOMAIN s : s[i] \in {"Login Failure", "Invalid Password"}
HasIdPhrase(s) == \E i \in DOMAIN s : s[i] = "Invalid App ID"
HasDiskPhrase(s) == \E i \in DOMAIN s : s[i] = "No space left on device"
HasErrorMarker(s) == \E i \in DOMAIN s : s[i] = "ERROR"
HasErrorPhrase(s) ==
    HasAuthPhrase(s) \/ HasIdPhrase(s) \/ HasDiskPhrase(s) \/ HasErrorMarker(s)
HasPercentage(s) == Matches1(s) \cup Matches2(s) \cup Matches3(s) # {}

\* C3: parse_progress classifies by first match in the order authentication
\* failure, invalid identifier, disk space, generic ERROR, percentage, no
\* signal; an authentication phrase wins over a percentage and
\* "ERROR: No space left on device" is a DiskError.
C3_Precedence ==
    phase = "parse" =>
        LET s == arg.s
            k == KindOf(ret)
        IN /\ k = (IF HasAuthPhrase(s) THEN "AuthError"
                   ELSE IF HasIdPhrase(s) THEN "InvalidId"
                   ELSE IF HasDiskPhrase(s) THEN "DiskError"
                   ELSE IF HasErrorMarker(s) THEN "GenericError"
                   ELSE IF HasPercentage(s) THEN "Progress"
                   ELSE "NoSignal")
           /\ (HasAuthPhrase(s) /\ HasPercentage(s) => ret = Str(MsgAuth))
           /\ (HasErrorMarker(s) /\ HasDiskPhrase(s) /\ ~HasAuthPhrase(s) /\ ~HasIdPhrase(s)
                 => ret = Str(MsgDisk))

\* a log with a progress line followed by an authentication failure was
\* classified as AuthError
C3_Witness ==
    /\ phase = "parse"
    /\ arg = Str(<<PROGRESS, "1", "0", "1", ".", "0", "%", AUTH1>>)
    /\ ret = Str(MsgAuth)

-----------------------------------------------------------------------------
(* Claims about start_download *)

ErrorStatuses == {"AuthError", "InvalidId", "DiskError", "GenericError"}
TerminalStatuses == ErrorStatuses \cup {"Completed"}

\* the status a yielded tuple stands for, read from its status text
StatusOf(snap) ==
    IF snap.status = <<"Downloading...">> THEN "Downloading"
    ELSE IF snap.status = <<"Running">> THEN "Running"
    ELSE IF snap.status = <<"Download completed">> THEN "Completed"
    ELSE IF snap.status \in {MsgInvalidGame, MsgNeedCreds} THEN "ValidationError"
    ELSE KindOf(Str(snap.status))

Last(q) == q[Len(q)]

Terminals(r) == {i \in DOMAIN snapshots[r] : StatusOf(snapshots[r][i]) \in TerminalStatuses}

AtMost100(v) == v.ip < 100 \/ (v.ip = 100 /\ v.fr = <<>>)

\* C1: once an error snapshot has been delivered the child is not running
\* any more (the kill is part of the poll step that classified the error).
C1_KilledWithSnapshot ==
    \A r \in reqs :
        (snapshots[r] # <<>> /\ StatusOf(Last(snapshots[r])) \in ErrorStatuses)
            => proc[r] # "running"

\* C2: if the log held a terminal-error phrase when the child exited, no
\* Completed snapshot is emitted and the last snapshot carries the error.
C2_ErrorWins ==
    \A r \in reqs :
        hist[r].errorAtExit =>
            /\ \A i \in DOMAIN snapshots[r] : StatusOf(snapshots[r][i]) # "Completed"
            /\ (pc[r] = "done" =>
                   snapshots[r] # <<>> /\ StatusOf(Last(snapshots[r])) \in ErrorStatuses)

Rejected(q) ==
    \/ extract_game_id(q.game_id) = None
    \/ ~q.anonymous /\ (q.username.s = <<>> \/ q.password.s = <<>>)

\* C4: a request without identifier, or non-anonymous with an empty username
\* or password, yields exactly one snapshot (percent 0, the validation
\* message) and ends; no child is spawned and the log file is not opened.
\* Every other request spawns exactly one child.
C4_Validation ==
    \A r \in reqs :
        IF Rejected(req[r])
        THEN /\ hist[r].spawns = 0 /\ hist[r].opens = 0 /\ proc[r] = "none"
             /\ pc[r] \in {"start", "yield_invalid", "done"}
             /\ (pc[r] = "start" => snapshots[r] = <<>>)
             /\ (pc[r] # "start" =>
                    /\ Len(snapshots[r]) = 1
                    /\ snapshots[r][1].percent = Zero
                    /\ StatusOf(snapshots[r][1]) = "ValidationError")
        ELSE /\ pc[r] # "yield_invalid"
             /\ hist[r].spawns = (IF pc[r] = "start" THEN 0 ELSE 1)
             /\ hist[r].opens = hist[r].spawns
             /\ \A i \in DOMAIN snapshots[r] : StatusOf(snapshots[r][i]) # "ValidationError"

\* a non-anonymous request without password ended after one snapshot, the
\* log of an earlier run still in place
C4_Witness ==
    /\ pc[1] = "done"
    /\ ~req[1].anonymous /\ req[1].password = Str(<<>>) /\ req[1].username = Str(<<"u">>)
    /\ extract_game_id(req[1].game_id) # None
    /\ snapshots[1] = <<MessageSnapshot(MsgNeedCreds)>>
    /\ log = <<"x">>

\* C5: a validated request whose child exits, or whose log is classified as a
\* terminal error, eventually ends with exactly one terminal snapshot, which
\* is the last one; at no time is there more than one terminal snapshot or a
\* snapshot after it.
C5_OneTerminal ==
    /\ [](\A r \in {1} : /\ Cardinality(Terminals(r)) <= 1
                         /\ Terminals(r) \subseteq {Len(snapshots[r])})
    /\ \A r \in {1} :
          (proc[r] = "exited" \/ pc[r] = "yield_error")
              ~> (pc[r] = "done" /\ Terminals(r) = {Len(snapshots[r])})

\* a request has ended with a Completed snapshot after a Downloading one
C5_Witness ==
    /\ pc[1] = "done"
    /\ Len(snapshots[1]) = 2
    /\ StatusOf(snapshots[1][1]) = "Downloading"
    /\ StatusOf(snapshots[1][2]) = "Completed"

NoSignalPoll(r) ==
    /\ pc[r] = "sleep" /\ pc'[r] # "sleep"
    /\ ~HasErrorPhrase(log) /\ ~HasPercentage(log)

\* C6 as stated: a poll without signal emits a snapshot with status Running
\* that repeats the previous percent.
C6_AsStated ==
    [][\A r \in reqs :
          NoSignalPoll(r) =>
              /\ Len(snapshots'[r]) = Len(snapshots[r]) + 1
              /\ StatusOf(Last(snapshots'[r])) = "Running"
              /\ (snapshots[r] # <<>> =>
                     Last(snapshots'[r]).percent = Last(snapshots[r]).percent)]_vars

\* C6 (amended): a poll without signal emits no snapshot: the sequence of
\* snapshots is unchanged and the monitor goes back to testing the child.
C6_Silent ==
    [][\A r \in reqs :
          NoSignalPoll(r) => snapshots'[r] = snapshots[r] /\ pc'[r] = "loop"]_vars

\* two polls of a running child with a signal-free log, and no snapshot
C6_Witness ==
    /\ pc[1] = "loop" /\ proc[1] = "running" /\ slept[1] = 2
    /\ output[1] = log /\ log = <<"x">>
    /\ snapshots[1] = <<>>

\* C7: the percent of every snapshot lies in [0, 100].
C7_PercentInRange ==
    \A r \in reqs : \A i \in DOMAIN snapshots[r] : AtMost100(snapshots[r][i].percent)

\* C10: after a Downloading snapshot taken from a 'Progress: X%' match, every
\* later Downloading snapshot of the request has the same percent.
C10_Frozen ==
    \A r \in reqs : \A i, j \in DOMAIN snapshots[r] :
        (i \in hist[r].from1 /\ i < j /\ StatusOf(snapshots[r][j]) = "Downloading")
            => snapshots[r][j].percent = snapshots[r][i].percent

\* the second Downloading snapshot repeats 1.5 although the child has since
\* appended 'Progress: 101.0%'
C10_Witness ==
    /\ Len(snapshots[1]) = 2
    /\ 1 \in hist[1].from1
    /\ StatusOf(snapshots[1][2]) = "Downloading"
    /\ output[1] = <<PROGRESS, "1", ".", "5", "%", PROGRESS, "1", "0", "1", ".", "0", "%">>
    /\ snapshots[1][2].percent = Float(1, <<"5">>)
    /\ Float(101, <<>>) # snapshots[1][2].percent

\* C9: concurrent requests share the one log file.  The spawn of a request
\* truncates it whoever is tailing it, every child writes at the offset of
\* its own descriptor into it, and every monitor reads all of it.
C9_SharedLog ==
    [][\A r \in reqs :
          /\ (pc[r] = "start" /\ pc'[r] = "loop" => log' = <<>>)
          /\ (pc[r] = "sleep" /\ pc'[r] # "sleep" => output'[r] = log)
          /\ (hist'[r].writes > hist[r].writes =>
                 /\ Len(log') >= off'[r]
                 /\ SubSeq(log', off[r] + 1, off'[r]) \in chunks
                 /\ SubSeq(log', 1, off[r]) = SubSeq(log \o Holes(off[r]), 1, off[r]))]_vars

\* a request has emitted a terminal error snapshot and terminated its child
\* although only the child of the other request wrote an error phrase
C9_Witness ==
    \E r, q \in reqs :
        /\ r # q
        /\ pc[r] = "done" /\ proc[r] = "terminated"
        /\ StatusOf(Last(snapshots[r])) \in ErrorStatuses
        /\ ~hist[r].wroteError
        /\ hist[q].wroteError /\ hist[q].spawns = 1

====
